---- MODULE Spec2Model ----
(***************************************************************************)
(* Whispr relay server: the room ledger (server/roomManager.ts), the       *)
(* per-socket rate limiter (server/lib/rateLimiter.ts), the validation     *)
(* helpers (server/lib/validate.ts), the Socket.IO event handlers          *)
(* (server/index.ts) and the captcha store (server/lib/captchaStore.ts).   *)
(*                                                                         *)
(* Strings that the code inspects character by character (room ids,        *)
(* display names) are sequences of one-character tokens; "SOH" stands for  *)
(* U+0001 (a control character that is not white space) and "TAB" for      *)
(* U+0009 (a control character that is white space).                       *)
(***************************************************************************)
EXTENDS Integers, Sequences, FiniteSets, TLC

\* ------------------------------------------------------------ constants
MAX_CONNECTIONS_PER_IP == 5
MAX_USERS == 2
ROOM_TTL_MS == 3600000
MAX_MESSAGES == 30
WINDOW_MS == 10000
NAME_MAX == 24
CAPTCHA_TTL == 300000

\* ------------------------------------------------------------ bounds
\* clock ticks of the room specification (each one millisecond longer than the TTL)
MaxRoomTicks == 1
\* clock ticks of the rate-limiter specification (each HalfWindow long)
MaxRateTicks == 3
\* denied checks counted per socket
MaxDenied == 2
\* clock ticks of the captcha specification (each CAPTCHA_TTL long)
MaxCaptchaTicks == 1
\* challenges created
MaxCaptchas == 2
\* verify calls recorded per challenge id
MaxVerifies == 2

HalfWindow == WINDOW_MS \div 2

\* ------------------------------------------------------------ values
SocketOrder == <<"sA", "sB", "sC", "sD", "sE", "sF">>
SocketIds == {SocketOrder[i] : i \in DOMAIN SocketOrder}

Str(s) == [t |-> "string", v |-> s]
NotAString == [t |-> "number", v |-> <<>>]

Room1 == <<"r", "0", "0", "m", "1", "2", "3", "4">>
Room2 == <<"i", "d", "l", "e", "0", "0", "0", "1">>
\* a room id of four characters, the shortest ROOM_ID_REGEX lets through
ShortRoom == <<"c", "h", "a", "t">>
RoomKeys == {Room1, Room2, ShortRoom}

Lower == {"a", "b", "c", "d", "e", "f", "g", "h", "i", "j", "k", "l", "m",
          "n", "o", "p", "q", "r", "s", "t", "u", "v", "w", "x", "y", "z"}
Upper == {"A", "B", "C", "D", "E", "F", "G", "H", "I", "J", "K", "L", "M",
          "N", "O", "P", "Q", "R", "S", "T", "U", "V", "W", "X", "Y", "Z"}
Digit == {"0", "1", "2", "3", "4", "5", "6", "7", "8", "9"}
RoomIdChars == Lower \cup Upper \cup Digit \cup {"_", "-"}

WhiteSpace == {" ", "TAB"}
ControlChars == {"SOH", "TAB"}

Min(a, b) == IF a < b THEN a ELSE b

\* ------------------------------------------------------------ validate.ts
IsValidRoomId(roomId) ==
    /\ roomId.t = "string"
    /\ Len(roomId.v) >= 4
    /\ Len(roomId.v) <= 16
    /\ \A i \in DOMAIN roomId.v : roomId.v[i] \in RoomIdChars

RECURSIVE TrimStart(_)
TrimStart(s) ==
    IF s # <<>> /\ Head(s) \in WhiteSpace THEN TrimStart(Tail(s)) ELSE s

RECURSIVE TrimEnd(_)
TrimEnd(s) ==
    IF s # <<>> /\ s[Len(s)] \in WhiteSpace
    THEN TrimEnd(SubSeq(s, 1, Len(s) - 1))
    ELSE s

Trim(s) == TrimEnd(TrimStart(s))

\* the length is tested before trimming
IsValidNameUntrimmed(name) ==
    /\ name.t = "string"
    /\ Len(name.v) >= 1
    /\ Len(name.v) <= NAME_MAX

IsValidName(name) ==
    /\ name.t = "string"
    /\ Len(Trim(name.v)) >= 1
    /\ Len(Trim(name.v)) <= NAME_MAX

NotControl(ch) == ch \notin ControlChars

SanitizeName(s) ==
    LET stripped == Trim(SelectSeq(s, NotControl))
    IN  SubSeq(stripped, 1, Min(Len(stripped), NAME_MAX))

\* ------------------------------------------------------------ state
VARIABLES
    now,               \* Date.now()
    sockets,           \* socket id -> [state, ip]
    connectionsPerIp,  \* Map<string, number>
    rooms,             \* RoomManager.rooms, in insertion order
    adapter,           \* Socket.IO broadcast channels: room id -> subscribed sockets
    entries,           \* RateLimiter.entries: socket id -> timestamps
    hist,              \* per socket, history of its rate checks: the denied ones counted,
                       \* the times of the allowed ones of the last WINDOW_MS
    emitted,           \* what the last handler emitted, in order
    last,              \* the last handled event and its outcome
    store,             \* CaptchaStore.store: challenge id -> [answer, expiresAt]
    issued,            \* number of ids drawn from randomBytes so far
    challenges,        \* per challenge id, history of the store: when the id was created,
                       \* with which text, and the results of the verify calls for it
    clients,           \* useSocket: socket id -> the hook's refs, state and pending awaits
    inbox              \* server events on their way to each client, in order

captchaVars == <<store, issued, challenges>>

clientVars == <<clients, inbox>>

serverVars == <<sockets, connectionsPerIp, rooms, adapter, entries, hist>>

vars == <<now, sockets, connectionsPerIp, rooms, adapter, entries, hist, emitted, last,
          store, issued, challenges, clients, inbox>>

\* ------------------------------------------------------------ roomManager.ts
RoomIndex(rs, roomId) ==
    IF \E i \in DOMAIN rs : rs[i].roomId = roomId
    THEN CHOOSE i \in DOMAIN rs : rs[i].roomId = roomId
    ELSE 0

HasRoom(rs, roomId) == RoomIndex(rs, roomId) # 0

GetRoom(rs, roomId) == rs[RoomIndex(rs, roomId)]

\* the socket is never found in a member list
UserIndexNotFound(users, socketId) == 0

UserIndex(users, socketId) ==
    IF \E i \in DOMAIN users : users[i].socketId = socketId
    THEN CHOOSE i \in DOMAIN users :
            /\ users[i].socketId = socketId
            /\ \A j \in 1..(i - 1) : users[j].socketId # socketId
    ELSE 0

RemoveAt(s, i) == SubSeq(s, 1, i - 1) \o SubSeq(s, i + 1, Len(s))

\* the room id is never fed to the HMAC
GenerateTokenOfNothing(roomId) == <<"hmac-sha256", "SERVER_SECRET", <<>>>>

GenerateToken(roomId) == <<"hmac-sha256", "SERVER_SECRET", roomId>>

\* verifyToken: the token equals, in length and in every character, the HMAC of the room id
VerifyToken(roomId, token) == token = GenerateToken(roomId)

\* a bug: the cap compared one too high
RoomFullOffByOne(users) == Len(users) > MAX_USERS

RoomFull(users) == Len(users) >= MAX_USERS

\* createOrJoin: the ledger afterwards and the returned {success, users, token}
CreateOrJoin(rs, roomId, socketId, name, t) ==
    IF ~HasRoom(rs, roomId)
    THEN LET room == [roomId |-> roomId,
                      users |-> <<[socketId |-> socketId, name |-> name]>>,
                      token |-> GenerateToken(roomId),
                      createdAt |-> t,
                      lastActivity |-> t]
         IN  [rooms |-> Append(rs, room), success |-> TRUE,
              users |-> room.users, token |-> room.token]
    ELSE LET k == RoomIndex(rs, roomId)
             room == rs[k]
             idx == UserIndex(room.users, socketId)
         IN  IF idx # 0
             THEN LET users2 == [room.users EXCEPT ![idx].name = name]
                  IN  [rooms |-> [rs EXCEPT ![k].users = users2, ![k].lastActivity = t],
                       success |-> TRUE, users |-> users2, token |-> room.token]
             ELSE IF RoomFull(room.users)
             THEN [rooms |-> rs, success |-> FALSE,
                   users |-> room.users, token |-> room.token]
             ELSE LET users2 == Append(room.users, [socketId |-> socketId, name |-> name])
                  IN  [rooms |-> [rs EXCEPT ![k].users = users2, ![k].lastActivity = t],
                       success |-> TRUE, users |-> users2, token |-> room.token]

Touch(rs, roomId, t) ==
    IF HasRoom(rs, roomId)
    THEN [rs EXCEPT ![RoomIndex(rs, roomId)].lastActivity = t]
    ELSE rs

\* leave: the first room, in insertion order, that holds the socket
LeaveIndex(rs, socketId) ==
    IF \E i \in DOMAIN rs : UserIndex(rs[i].users, socketId) # 0
    THEN CHOOSE i \in DOMAIN rs :
            /\ UserIndex(rs[i].users, socketId) # 0
            /\ \A j \in 1..(i - 1) : UserIndex(rs[j].users, socketId) = 0
    ELSE 0

\* the room is kept in the ledger when its last member leaves
LeaveKeepsEmptyRoom(rs, socketId) ==
    LET k == LeaveIndex(rs, socketId)
    IN  IF k = 0
        THEN [rooms |-> rs, found |-> FALSE, roomId |-> <<>>, userName |-> <<>>]
        ELSE LET idx == UserIndex(rs[k].users, socketId)
             IN  [rooms |-> [rs EXCEPT ![k].users = RemoveAt(rs[k].users, idx)],
                  found |-> TRUE,
                  roomId |-> rs[k].roomId,
                  userName |-> rs[k].users[idx].name]

Leave(rs, socketId) ==
    LET k == LeaveIndex(rs, socketId)
    IN  IF k = 0
        THEN [rooms |-> rs, found |-> FALSE, roomId |-> <<>>, userName |-> <<>>]
        ELSE LET idx == UserIndex(rs[k].users, socketId)
                 users2 == RemoveAt(rs[k].users, idx)
             IN  [rooms |-> IF Len(users2) = 0
                            THEN RemoveAt(rs, k)
                            ELSE [rs EXCEPT ![k].users = users2],
                  found |-> TRUE,
                  roomId |-> rs[k].roomId,
                  userName |-> rs[k].users[idx].name]

DestroyRoom(rs, roomId) ==
    IF HasRoom(rs, roomId) THEN RemoveAt(rs, RoomIndex(rs, roomId)) ELSE rs

\* a bug: the room exists, whoever asks
IsMemberOfExisting(rs, roomId, socketId) == HasRoom(rs, roomId)

IsMember(rs, roomId, socketId) ==
    /\ HasRoom(rs, roomId)
    /\ UserIndex(GetRoom(rs, roomId).users, socketId) # 0

\* a room is expired as soon as its age reaches the TTL
ExpiredAtTtl(room, t) == t - room.lastActivity >= ROOM_TTL_MS

Expired(room, t) == t - room.lastActivity > ROOM_TTL_MS

NotExpiredNow(room) == ~Expired(room, now)

SweepRooms(rs) == SelectSeq(rs, NotExpiredNow)

\* ------------------------------------------------------------ rateLimiter.ts
\* a bug: a timestamp exactly WINDOW_MS old is kept
InWindowInclusive(t, x) == t - x <= WINDOW_MS

InWindow(t, x) == t - x < WINDOW_MS

\* a bug: the timestamp is recorded before the limit is tested
RateCheckRecordsDenied(es, socketId, t) ==
    LET old == IF socketId \in DOMAIN es THEN es[socketId] ELSE <<>>
        Keep(x) == InWindow(t, x)
        kept == SelectSeq(old, Keep)
        With(ts) == [s \in DOMAIN es \cup {socketId} |-> IF s = socketId THEN ts ELSE es[s]]
    IN  [entries |-> With(Append(kept, t)), allowed |-> ~(Len(kept) >= MAX_MESSAGES)]

\* check: the entries afterwards and the returned boolean
RateCheck(es, socketId, t) ==
    LET old == IF socketId \in DOMAIN es THEN es[socketId] ELSE <<>>
        Keep(x) == InWindow(t, x)
        kept == SelectSeq(old, Keep)
        With(ts) == [s \in DOMAIN es \cup {socketId} |-> IF s = socketId THEN ts ELSE es[s]]
    IN  IF Len(kept) >= MAX_MESSAGES
        THEN [entries |-> With(kept), allowed |-> FALSE]
        ELSE [entries |-> With(Append(kept, t)), allowed |-> TRUE]

RateRemove(es, socketId) == [s \in DOMAIN es \ {socketId} |-> es[s]]

\* ------------------------------------------------------------ index.ts: helpers
NoHeader == [t |-> "undefined", v |-> <<>>]

\* x-forwarded-for as the list of its comma-separated items, already trimmed
GetClientIp(forwarded) ==
    IF forwarded.t = "string" THEN Head(forwarded.v) ELSE "unknown"

NoData == [empty |-> TRUE]
Null == [t |-> "null", v |-> <<>>]
NotAnObject == [t |-> "undefined"]

\* an emitted event: its recipient, its name, its payload and the channel it went through
Event(to, ev, data, room) == [to |-> to, ev |-> ev, data |-> data, room |-> room]

\* socket.emit(ev, data)
Emit(to, ev, data) == <<Event(to, ev, data, <<>>)>>

\* io.to(roomId).emit(ev, data): every subscriber of the channel, the sender too
BroadcastToAll(ad, roomId, from, ev, data) ==
    LET Gets(s) == s \in ad[roomId]
        to == SelectSeq(SocketOrder, Gets)
    IN  [i \in DOMAIN to |-> Event(to[i], ev, data, roomId)]

\* every subscriber but the sender is sent the event twice
BroadcastTwice(ad, roomId, from, ev, data) ==
    LET Gets(s) == s \in ad[roomId] /\ s # from
        to == SelectSeq(SocketOrder, Gets)
        once == [i \in DOMAIN to |-> Event(to[i], ev, data, roomId)]
    IN  once \o once

\* socket.to(roomId).emit(ev, data): every subscriber of the channel but the sender
Broadcast(ad, roomId, from, ev, data) ==
    LET Gets(s) == s \in ad[roomId] /\ s # from
        to == SelectSeq(SocketOrder, Gets)
    IN  [i \in DOMAIN to |-> Event(to[i], ev, data, roomId)]

Connected(c) == sockets[c].state = "connected"

Handled(op, c, roomId, res) == [op |-> op, socket |-> c, roomId |-> roomId, res |-> res]

KeyOf(roomId) == IF IsValidRoomId(roomId) THEN roomId.v ELSE <<>>

\* ------------------------------------------------------------ index.ts: connection middleware
Connect(c, forwarded) ==
    /\ sockets[c].state = "new"
    /\ LET ip == GetClientIp(forwarded)
           count == IF ip \in DOMAIN connectionsPerIp THEN connectionsPerIp[ip] ELSE 0
       IN  IF count >= MAX_CONNECTIONS_PER_IP
           THEN /\ sockets' = [sockets EXCEPT ![c] = [state |-> "refused", ip |-> "unset"]]
                /\ last' = Handled("connect", c, <<>>, "refused")
                /\ UNCHANGED connectionsPerIp
           ELSE /\ connectionsPerIp' =
                      [a \in DOMAIN connectionsPerIp \cup {ip} |->
                          IF a = ip THEN count + 1 ELSE connectionsPerIp[a]]
                /\ sockets' = [sockets EXCEPT ![c] = [state |-> "connected", ip |-> ip]]
                /\ last' = Handled("connect", c, <<>>, "connected")
    /\ emitted' = <<>>
    /\ UNCHANGED <<now, rooms, adapter, entries, hist, captchaVars, clientVars>>

\* ------------------------------------------------------------ index.ts: join-room
PeerName(users, c) ==
    LET others == SelectSeq(users, LAMBDA u : u.socketId # c)
    IN  IF others = <<>> \/ Head(others).name = <<>> THEN Null ELSE Str(Head(others).name)

OnJoinRoom(c, payload) ==
    /\ Connected(c)
    /\ UNCHANGED <<now, sockets, connectionsPerIp, entries, hist, captchaVars>>
    /\ IF payload.t # "object"
       THEN /\ emitted' = <<>>
            /\ last' = Handled("join-room", c, <<>>, "ignored")
            /\ UNCHANGED <<rooms, adapter>>
       ELSE IF ~IsValidRoomId(payload.roomId)
       THEN /\ emitted' = Emit(c, "error-msg", [message |-> "Invalid room ID"])
            /\ last' = Handled("join-room", c, <<>>, "invalid-room")
            /\ UNCHANGED <<rooms, adapter>>
       ELSE IF ~IsValidName(payload.name)
       THEN /\ emitted' = Emit(c, "error-msg", [message |-> "Invalid name"])
            /\ last' = Handled("join-room", c, payload.roomId.v, "invalid-name")
            /\ UNCHANGED <<rooms, adapter>>
       ELSE LET roomId == payload.roomId.v
                cleanName == SanitizeName(payload.name.v)
                result == CreateOrJoin(rooms, roomId, c, cleanName, now)
                joinedAdapter == [adapter EXCEPT ![roomId] = @ \cup {c}]
            IN  /\ rooms' = result.rooms
                /\ IF ~result.success
                   THEN /\ emitted' = Emit(c, "room-full", NoData)
                        /\ last' = Handled("join-room", c, roomId, "room-full")
                        /\ UNCHANGED adapter
                   ELSE /\ adapter' = joinedAdapter
                        /\ emitted' =
                              Emit(c, "joined", [token |-> result.token,
                                                 peerName |-> PeerName(result.users, c)])
                              \o Broadcast(joinedAdapter, roomId, c, "peer-joined",
                                           [name |-> cleanName])
                        /\ last' = Handled("join-room", c, roomId, "joined")

JoinRoom(c, payload) == OnJoinRoom(c, payload) /\ UNCHANGED clientVars

\* a bug: a dropped event that names an existing room is answered with an error
RelayRefusesStranger(op, c, roomId, pass, data) ==
    /\ IF pass
       THEN /\ emitted' = Broadcast(adapter, roomId.v, c, op, data)
            /\ last' = Handled(op, c, roomId.v, "relayed")
       ELSE /\ emitted' = IF HasRoom(rooms, KeyOf(roomId))
                          THEN Emit(c, "error-msg", [message |-> "Not a member"])
                          ELSE <<>>
            /\ last' = Handled(op, c, KeyOf(roomId), "dropped")
    /\ UNCHANGED <<now, sockets, connectionsPerIp, rooms, adapter, entries, hist, captchaVars>>

\* ------------------------------------------------------------ index.ts: relays
\* the common tail of a relay handler: forward or drop, nothing else changes
Relay(op, c, roomId, pass, data) ==
    /\ IF pass
       THEN /\ emitted' = Broadcast(adapter, roomId.v, c, op, data)
            /\ last' = Handled(op, c, roomId.v, "relayed")
       ELSE /\ emitted' = <<>>
            /\ last' = Handled(op, c, KeyOf(roomId), "dropped")
    /\ UNCHANGED <<now, sockets, connectionsPerIp, rooms, adapter, entries, hist, captchaVars>>

OnKeyExchange(c, payload) ==
    /\ Connected(c)
    /\ IF payload.t # "object"
       THEN Relay("key-exchange", c, NotAString, FALSE, NoData)
       ELSE Relay("key-exchange", c, payload.roomId,
                  /\ IsValidRoomId(payload.roomId)
                  /\ payload.publicKey.t = "string"
                  /\ ~(payload.publicKey.len > 1000)
                  /\ IsMember(rooms, payload.roomId.v, c),
                  [publicKey |-> payload.publicKey])

KeyExchange(c, payload) == OnKeyExchange(c, payload) /\ UNCHANGED clientVars

SyncHistory(c, payload) ==
    /\ Connected(c)
    /\ IF payload.t # "object"
       THEN Relay("sync-history", c, NotAString, FALSE, NoData)
       ELSE Relay("sync-history", c, payload.roomId,
                  /\ IsValidRoomId(payload.roomId)
                  /\ IsMember(rooms, payload.roomId.v, c)
                  /\ payload.messages.t = "array",
                  [messages |-> payload.messages])
    /\ UNCHANGED clientVars

\* a bug: typing goes through the rate limiter like send-message
TypingRateLimited(c, payload) ==
    /\ Connected(c)
    /\ LET rate == RateCheck(entries, c, now)
           pass == /\ payload.t = "object"
                   /\ IsValidRoomId(payload.roomId)
                   /\ IsValidName(payload.name)
                   /\ IsMember(rooms, payload.roomId.v, c)
           key == IF payload.t = "object" THEN KeyOf(payload.roomId) ELSE <<>>
       IN  /\ entries' = rate.entries
           /\ IF rate.allowed /\ pass
              THEN /\ emitted' = Broadcast(adapter, key, c, "typing",
                                           [name |-> SanitizeName(payload.name.v)])
                   /\ last' = Handled("typing", c, key, "relayed")
              ELSE /\ emitted' = <<>>
                   /\ last' = Handled("typing", c, key, "dropped")
    /\ UNCHANGED <<now, sockets, connectionsPerIp, rooms, adapter, hist, captchaVars, clientVars>>

Typing(c, payload) ==
    /\ Connected(c)
    /\ IF payload.t # "object"
       THEN Relay("typing", c, NotAString, FALSE, NoData)
       ELSE Relay("typing", c, payload.roomId,
                  /\ IsValidRoomId(payload.roomId)
                  /\ IsValidName(payload.name)
                  /\ IsMember(rooms, payload.roomId.v, c),
                  [name |-> SanitizeName(payload.name.v)])
    /\ UNCHANGED clientVars

StopTyping(c, payload) ==
    /\ Connected(c)
    /\ IF payload.t # "object"
       THEN Relay("stop-typing", c, NotAString, FALSE, NoData)
       ELSE Relay("stop-typing", c, payload.roomId,
                  /\ IsValidRoomId(payload.roomId)
                  /\ IsMember(rooms, payload.roomId.v, c),
                  NoData)
    /\ UNCHANGED clientVars

\* ------------------------------------------------------------ index.ts: send-message
IsValidMessageType(type) == type \in {"text", "image", "voice", "gif"}

\* a string of any length is accepted
IsValidBase64AnyLength(data) == data.t = "string"

IsValidBase64(data) == data.t = "string" /\ ~(data.len > 5 * 1024 * 1024)

IsValidTimestamp(ts, t) ==
    /\ ts.t = "number"
    /\ ts.v > t - 300000
    /\ ts.v < t + 30000

\* history of the rate checks, kept beside the limiter and never read by it
Recent(t, x) == x > t - WINDOW_MS

Recorded(h, c, allowed, t) ==
    [h EXCEPT ![c] = IF allowed
                     THEN [@ EXCEPT !.granted = Append(@, t)]
                     ELSE [@ EXCEPT !.denied = Min(@ + 1, MaxDenied)]]

Forgotten(h, t) ==
    [c \in DOMAIN h |->
        [h[c] EXCEPT !.granted = SelectSeq(@, LAMBDA x : Recent(t, x))]]

NoHistory == [denied |-> 0, granted |-> <<>>]

SendMessage(c, msg) ==
    /\ Connected(c)
    /\ UNCHANGED <<now, sockets, connectionsPerIp, adapter, captchaVars, clientVars>>
    /\ IF msg.t # "object"
       THEN /\ emitted' = <<>>
            /\ last' = Handled("send-message", c, <<>>, "ignored")
            /\ UNCHANGED <<rooms, entries, hist>>
       ELSE LET rate == RateCheck(entries, c, now)
            IN  /\ entries' = rate.entries
                /\ hist' = Recorded(hist, c, rate.allowed, now)
                /\ IF ~rate.allowed
                   THEN /\ emitted' = Emit(c, "error-msg",
                                           [message |-> "Rate limited. Slow down."])
                        /\ last' = Handled("send-message", c, KeyOf(msg.roomId), "rate-limited")
                        /\ UNCHANGED rooms
                   ELSE IF /\ IsValidRoomId(msg.roomId)
                           /\ IsValidName(msg.sender)
                           /\ IsValidMessageType(msg.type)
                           /\ IsValidBase64(msg.encrypted)
                           /\ IsValidBase64(msg.iv)
                           /\ IsValidTimestamp(msg.timestamp, now)
                           /\ IsMember(rooms, msg.roomId.v, c)
                   THEN /\ rooms' = Touch(rooms, msg.roomId.v, now)
                        /\ emitted' = Broadcast(adapter, msg.roomId.v, c, "receive-message",
                                                [sender |-> SanitizeName(msg.sender.v),
                                                 type |-> msg.type,
                                                 encrypted |-> msg.encrypted,
                                                 iv |-> msg.iv,
                                                 timestamp |-> msg.timestamp])
                        /\ last' = Handled("send-message", c, msg.roomId.v, "relayed")
                   ELSE /\ emitted' = <<>>
                        /\ last' = Handled("send-message", c, KeyOf(msg.roomId), "dropped")
                        /\ UNCHANGED rooms

\* ------------------------------------------------------------ index.ts: end-chat
EndChat(c, payload) ==
    /\ Connected(c)
    /\ UNCHANGED <<now, sockets, connectionsPerIp, entries, hist, captchaVars, clientVars>>
    /\ IF payload.t # "object"
       THEN /\ emitted' = <<>>
            /\ last' = Handled("end-chat", c, <<>>, "dropped")
            /\ UNCHANGED <<rooms, adapter>>
       ELSE IF /\ IsValidRoomId(payload.roomId)
               /\ IsMember(rooms, payload.roomId.v, c)
       THEN /\ emitted' = Broadcast(adapter, payload.roomId.v, c, "chat-ended", NoData)
            /\ rooms' = DestroyRoom(rooms, payload.roomId.v)
            /\ adapter' = [adapter EXCEPT ![payload.roomId.v] = {}]
            /\ last' = Handled("end-chat", c, payload.roomId.v, "ended")
       ELSE /\ emitted' = <<>>
            /\ last' = Handled("end-chat", c, KeyOf(payload.roomId), "dropped")
            /\ UNCHANGED <<rooms, adapter>>

\* the count is decremented and the entry is kept when it reaches 0
ReleaseIpToZero(counts, ip) ==
    IF ip = "" \/ ip \notin DOMAIN counts
    THEN counts
    ELSE [counts EXCEPT ![ip] = @ - 1]

\* ------------------------------------------------------------ index.ts: disconnect
ReleaseIp(counts, ip) ==
    IF ip = ""
    THEN counts
    ELSE LET count == IF ip \in DOMAIN counts /\ counts[ip] # 0 THEN counts[ip] ELSE 1
         IN  IF count <= 1
             THEN [a \in DOMAIN counts \ {ip} |-> counts[a]]
             ELSE [counts EXCEPT ![ip] = count - 1]

\* Socket.IO takes the socket out of every channel before "disconnect" is emitted
LeaveAll(ad, c) == [r \in DOMAIN ad |-> ad[r] \ {c}]

Disconnect(c) ==
    /\ Connected(c)
    /\ LET result == Leave(rooms, c)
           left == LeaveAll(adapter, c)
       IN  /\ connectionsPerIp' = ReleaseIp(connectionsPerIp, sockets[c].ip)
           /\ entries' = RateRemove(entries, c)
           /\ rooms' = result.rooms
           /\ adapter' = left
           /\ emitted' = IF result.found
                         THEN Broadcast(left, result.roomId, c, "peer-left",
                                        [name |-> result.userName])
                         ELSE <<>>
           /\ last' = Handled("disconnect", c, result.roomId,
                              IF result.found THEN "left" ELSE "none")
    /\ sockets' = [sockets EXCEPT ![c].state = "closed"]
    /\ hist' = [hist EXCEPT ![c] = NoHistory]
    /\ UNCHANGED <<now, captchaVars, clientVars>>

\* ------------------------------------------------------------ roomManager.ts: sweep timer
Sweep ==
    /\ rooms' = SweepRooms(rooms)
    /\ emitted' = <<>>
    /\ last' = Handled("sweep", "timer", <<>>, "swept")
    /\ UNCHANGED <<now, sockets, connectionsPerIp, adapter, entries, hist, captchaVars, clientVars>>

\* ------------------------------------------------------------ captchaStore.ts
UpperLetters == <<"A", "B", "C", "D", "E", "F", "G", "H", "I", "J", "K", "L", "M",
                  "N", "O", "P", "Q", "R", "S", "T", "U", "V", "W", "X", "Y", "Z">>
LowerLetters == <<"a", "b", "c", "d", "e", "f", "g", "h", "i", "j", "k", "l", "m",
                  "n", "o", "p", "q", "r", "s", "t", "u", "v", "w", "x", "y", "z">>

\* String.prototype.toLowerCase
ToLowerCase(s) ==
    [i \in DOMAIN s |->
        IF \E k \in DOMAIN UpperLetters : UpperLetters[k] = s[i]
        THEN LowerLetters[CHOOSE k \in DOMAIN UpperLetters : UpperLetters[k] = s[i]]
        ELSE s[i]]

\* the ids that randomBytes(16) yields, in the order it yields them
CaptchaIdOrder == <<"id1", "id2", "id3", "id4">>
CaptchaIds == SubSeq(CaptchaIdOrder, 1, MaxCaptchas)
UnknownId == "id0"

\* Map.prototype.delete
Without(st, id) == [k \in DOMAIN st \ {id} |-> st[k]]

AnswerMatches(entry, answer) == ToLowerCase(entry.answer) = ToLowerCase(Trim(answer))

\* an entry is expired only two milliseconds after its expiresAt
CaptchaExpiredLate(entry, t) == t > entry.expiresAt + 1

CaptchaExpired(entry, t) == t > entry.expiresAt

\* the entry is deleted only when the answer is accepted
VerifyKeepsOnFailure(st, id, answer, t) ==
    IF id \notin DOMAIN st
    THEN [store |-> st, ok |-> FALSE]
    ELSE IF CaptchaExpired(st[id], t) \/ ~AnswerMatches(st[id], answer)
         THEN [store |-> st, ok |-> FALSE]
         ELSE [store |-> Without(st, id), ok |-> TRUE]

CaptchaVerify(st, id, answer, t) ==
    IF id \notin DOMAIN st
    THEN [store |-> st, ok |-> FALSE]
    ELSE [store |-> Without(st, id),
          ok |-> IF CaptchaExpired(st[id], t) THEN FALSE ELSE AnswerMatches(st[id], answer)]

\* a verify call and what it returned
Verified(id, answer, ok) ==
    [op |-> "verify", socket |-> id, roomId |-> <<>>, answer |-> answer,
     res |-> IF ok THEN "true" ELSE "false"]

NotIssued == [issued |-> FALSE, createdAt |-> 0, text |-> <<>>, results |-> <<>>]

Create(text) ==
    /\ issued < MaxCaptchas
    /\ LET id == CaptchaIds[issued + 1]
       IN  /\ store' = [k \in DOMAIN store \cup {id} |->
                           IF k = id
                           THEN [answer |-> text, expiresAt |-> now + CAPTCHA_TTL]
                           ELSE store[k]]
           /\ issued' = issued + 1
           /\ challenges' = [challenges EXCEPT ![id] =
                                [issued |-> TRUE, createdAt |-> now, text |-> text,
                                 results |-> <<>>]]
           /\ last' = Handled("create", id, <<>>, "created")
    /\ emitted' = <<>>
    /\ UNCHANGED <<now, serverVars, clientVars>>

Verify(id, answer) ==
    /\ Len(challenges[id].results) < MaxVerifies
    /\ LET result == CaptchaVerify(store, id, answer, now)
       IN  /\ store' = result.store
           /\ challenges' = [challenges EXCEPT ![id].results = Append(@, result.ok)]
           /\ last' = Verified(id, answer, result.ok)
    /\ emitted' = <<>>
    /\ UNCHANGED <<now, issued, serverVars, clientVars>>

CaptchaSweep ==
    /\ store' = [k \in {i \in DOMAIN store : ~CaptchaExpired(store[i], now)} |-> store[k]]
    /\ last' = Handled("captcha-sweep", "timer", <<>>, "swept")
    /\ emitted' = <<>>
    /\ UNCHANGED <<now, issued, challenges, serverVars, clientVars>>

\* ------------------------------------------------------------ the clock
Tick(d, limit) ==
    /\ now + d <= limit
    /\ now' = now + d
    /\ hist' = Forgotten(hist, now + d)
    /\ UNCHANGED <<sockets, connectionsPerIp, rooms, adapter, entries, emitted, last, captchaVars, clientVars>>

\* ------------------------------------------------------------ inputs
\* ------------------------------------------------------------ useSocket (the client hook)
\* the refs and state of one hook: roomIdRef, keyPairRef, keySentRef, encrypted,
\* sharedKey (the two key owners it was derived from), and the awaits still pending
NewClient ==
    [roomId |-> <<>>, keyPair |-> FALSE, keySent |-> FALSE, encrypted |-> FALSE,
     sharedKey |-> {}, tasks |-> <<>>]

Await(k, key) == [k |-> k, key |-> key]

\* the SPKI export of the public key of c's pair
PublicKeyOf(c) == [t |-> "string", len |-> 88, v |-> c]

\* what the server emitted reaches each addressee, in order
Delivered(box, events) ==
    [d \in DOMAIN box |-> box[d] \o SelectSeq(events, LAMBDA e : e.to = d)]

joinRoom(c, roomId, name) ==
    /\ clients[c].roomId = <<>>
    /\ clients' = [clients EXCEPT ![c].roomId = roomId]
    /\ OnJoinRoom(c, [t |-> "object", roomId |-> Str(roomId), name |-> name])
    /\ inbox' = Delivered(inbox, emitted')

\* the synchronous part of the handler of the next event in c's inbox
Receive(c) ==
    /\ Connected(c)
    /\ inbox[c] # <<>>
    /\ LET e == Head(inbox[c])
           me == clients[c]
       IN  clients' =
             [clients EXCEPT ![c].tasks =
                IF e.ev = "joined"
                THEN Append(@, Await("generateKeyPair", ""))
                ELSE IF e.ev = "peer-joined" /\ me.keyPair /\ me.roomId # <<>>
                THEN Append(@, Await("exportPublicKey", ""))
                ELSE IF e.ev = "key-exchange" /\ me.keyPair
                THEN Append(@, Await("deriveSharedKey", e.data.publicKey.v))
                ELSE @]
    /\ inbox' = [inbox EXCEPT ![c] = Tail(@)]
    /\ UNCHANGED <<now, serverVars, emitted, last, captchaVars>>

\* the i-th pending await of c resolves and its continuation runs
Complete(c, i) ==
    /\ Connected(c)
    /\ i \in DOMAIN clients[c].tasks
    /\ LET task == clients[c].tasks[i]
           rest == RemoveAt(clients[c].tasks, i)
           me == clients[c]
       IN  IF task.k = "generateKeyPair"
           THEN /\ clients' = [clients EXCEPT ![c].keyPair = TRUE, ![c].tasks = rest]
                /\ UNCHANGED <<now, serverVars, emitted, last, captchaVars, inbox>>
           ELSE IF task.k = "deriveSharedKey"
           THEN /\ clients' =
                      [clients EXCEPT
                          ![c].sharedKey = {c, task.key},
                          ![c].encrypted = TRUE,
                          ![c].tasks = IF ~me.keySent /\ me.roomId # <<>>
                                       THEN Append(rest, Await("exportPublicKey", ""))
                                       ELSE rest]
                /\ UNCHANGED <<now, serverVars, emitted, last, captchaVars, inbox>>
           ELSE /\ clients' = [clients EXCEPT ![c].keySent = TRUE, ![c].tasks = rest]
                /\ OnKeyExchange(c, [t |-> "object", roomId |-> Str(me.roomId),
                                     publicKey |-> PublicKeyOf(c)])
                /\ inbox' = Delivered(inbox, emitted')

EmptyMap == [x \in {} |-> 0]

Init ==
    /\ now = 0
    /\ sockets = [c \in SocketIds |-> [state |-> "new", ip |-> "unset"]]
    /\ connectionsPerIp = EmptyMap
    /\ rooms = <<>>
    /\ adapter = [r \in RoomKeys |-> {}]
    /\ entries = EmptyMap
    /\ hist = [c \in SocketIds |-> NoHistory]
    /\ emitted = <<>>
    /\ last = Handled("boot", "none", <<>>, "none")
    /\ store = EmptyMap
    /\ issued = 0
    /\ challenges = [id \in {CaptchaIds[i] : i \in DOMAIN CaptchaIds} \cup {UnknownId} |->
                        NotIssued]
    /\ clients = [c \in SocketIds |-> NewClient]
    /\ inbox = [c \in SocketIds |-> <<>>]

\* " a<TAB>" is sanitized to "a"; "<SOH>" passes isValidName and is sanitized to ""
NameA == Str(<<" ", "a", "TAB">>)
NameCtl == Str(<<"SOH">>)
Headers == {Str(<<"10.0.0.1", "10.0.0.2">>)}

JoinPayloads(ids, names) ==
    {[t |-> "object", roomId |-> r, name |-> n] : r \in ids, n \in names}

RoomPayloads(ids) == {[t |-> "object", roomId |-> r] : r \in ids}

PublicKey == [t |-> "string", len |-> 88, v |-> "spki"]

KeyPayloads(ids) == {[t |-> "object", roomId |-> r, publicKey |-> PublicKey] : r \in ids}

History == [t |-> "array", v |-> "history"]

SyncPayloads(ids) == {[t |-> "object", roomId |-> r, messages |-> History] : r \in ids}

TypingPayloads(ids) == {[t |-> "object", roomId |-> r, name |-> NameA] : r \in ids}

Blob == [t |-> "string", len |-> 24, v |-> "ciphertext"]
Iv == [t |-> "string", len |-> 16, v |-> "iv"]

Message(r, sender, ts) ==
    [t |-> "object", roomId |-> r, sender |-> sender, type |-> "text",
     encrypted |-> Blob, iv |-> Iv, timestamp |-> [t |-> "number", v |-> ts]]

Messages(ids) == {Message(r, NameA, now) : r \in ids}

\* the socket has no timestamp left inside the rate window
Quiet(c) ==
    IF c \in DOMAIN entries
    THEN \A i \in DOMAIN entries[c] : ~InWindow(now, entries[c][i])
    ELSE TRUE

RoomTick == ROOM_TTL_MS + 1

\* ------------------------------------------------------------ the room specification
\* three sockets, one room id and one display name; a socket sends at most one
\* message per rate window
OneRoom == {Str(Room1)}
OneName == {NameA}
ThreeSockets == {"sA", "sB", "sC"}

Next ==
    \/ \E c \in ThreeSockets, h \in Headers : Connect(c, h)
    \/ \E c \in ThreeSockets, p \in JoinPayloads(OneRoom, OneName) : JoinRoom(c, p)
    \/ \E c \in ThreeSockets, p \in KeyPayloads(OneRoom) : KeyExchange(c, p)
    \/ \E c \in ThreeSockets, p \in SyncPayloads(OneRoom) : SyncHistory(c, p)
    \/ \E c \in ThreeSockets, m \in Messages(OneRoom) : Quiet(c) /\ SendMessage(c, m)
    \/ \E c \in ThreeSockets, p \in TypingPayloads(OneRoom) : Typing(c, p)
    \/ \E c \in ThreeSockets, p \in RoomPayloads(OneRoom) : StopTyping(c, p)
    \/ \E c \in ThreeSockets, p \in RoomPayloads(OneRoom) : EndChat(c, p)
    \/ \E c \in ThreeSockets : Disconnect(c)
    \/ Sweep
    \/ Tick(RoomTick, MaxRoomTicks * RoomTick)

Spec == Init /\ [][Next]_vars

\* ------------------------------------------------------------ the connection specification
\* six sockets behind two addresses, one of them the empty string; each may join
\* Room1 and send one message
ConnHeaders == {Str(<<"10.0.0.1", "10.0.0.2">>)}

NextConn ==
    \/ \E c \in SocketIds, h \in ConnHeaders : Connect(c, h)
    \/ \E c \in SocketIds, p \in JoinPayloads(OneRoom, OneName) : JoinRoom(c, p)
    \/ \E c \in SocketIds, m \in Messages(OneRoom) : Quiet(c) /\ SendMessage(c, m)
    \/ \E c \in SocketIds : Disconnect(c)

SpecConn == Init /\ [][NextConn]_vars

\* ------------------------------------------------------------ the two-room specification
\* two sockets, two room ids and two display names, at one instant
TwoRooms == {Str(Room1), Str(Room2)}
TwoNames == {NameA, NameCtl}
TwoSockets == {"sA", "sB"}

NextRooms ==
    \/ \E c \in TwoSockets, h \in Headers : Connect(c, h)
    \/ \E c \in TwoSockets, p \in JoinPayloads(TwoRooms, TwoNames) : JoinRoom(c, p)
    \/ \E c \in TwoSockets, m \in Messages(TwoRooms) : Quiet(c) /\ SendMessage(c, m)
    \/ \E c \in TwoSockets, p \in RoomPayloads(TwoRooms) : EndChat(c, p)
    \/ \E c \in TwoSockets : Disconnect(c)

SpecRooms == Init /\ [][NextRooms]_vars

\* ------------------------------------------------------------ the sweep specification
\* two sockets and two room ids; the clock stands at 0, 1, ROOM_TTL_MS or
\* ROOM_TTL_MS + 1, so that a room is swept at the ages 0, 1, ROOM_TTL_MS - 1,
\* ROOM_TTL_MS and ROOM_TTL_MS + 1
NextSweep ==
    \/ \E c \in TwoSockets, h \in Headers : Connect(c, h)
    \/ \E c \in TwoSockets, p \in JoinPayloads(TwoRooms, OneName) : JoinRoom(c, p)
    \/ \E c \in TwoSockets, m \in Messages(TwoRooms) : Quiet(c) /\ SendMessage(c, m)
    \/ \E c \in TwoSockets : Disconnect(c)
    \/ Sweep
    \/ Tick(1, 1)
    \/ Tick(ROOM_TTL_MS, MaxRoomTicks * RoomTick)

SpecSweep == Init /\ [][NextSweep]_vars

\* ------------------------------------------------------------ the captcha specification
\* two challenges with the text "aB3dE"; the answers " Ab3De<TAB>" and "aB3dX"; the
\* clock stands at 0, 1, CAPTCHA_TTL or CAPTCHA_TTL + 1
CaptchaText == <<"a", "B", "3", "d", "E">>
AnswerRight == <<" ", "A", "b", "3", "D", "e", "TAB">>
AnswerWrong == <<"a", "B", "3", "d", "X">>
Answers == {AnswerRight, AnswerWrong}
VerifiedIds == {CaptchaIds[i] : i \in 1..MaxCaptchas} \cup {UnknownId}

NextCaptcha ==
    \/ Create(CaptchaText)
    \/ \E id \in VerifiedIds, answer \in Answers : Verify(id, answer)
    \/ CaptchaSweep
    \/ Tick(1, 1)
    \/ Tick(CAPTCHA_TTL, MaxCaptchaTicks * (CAPTCHA_TTL + 1))

SpecCaptcha == Init /\ [][NextCaptcha]_vars

\* ------------------------------------------------------------ the rate-limiter specification
\* sA and sB have joined Room1 at time 0; sA sends, the clock advances by half windows
RateSockets == {"sA"}

InitRate ==
    /\ now = 0
    /\ sockets = [c \in SocketIds |->
                    IF c \in {"sA", "sB"}
                    THEN [state |-> "connected", ip |-> "10.0.0.1"]
                    ELSE [state |-> "new", ip |-> "unset"]]
    /\ connectionsPerIp = [a \in {"10.0.0.1"} |-> 2]
    /\ rooms = CreateOrJoin(CreateOrJoin(<<>>, Room1, "sA", <<"a">>, 0).rooms,
                            Room1, "sB", <<"a">>, 0).rooms
    /\ adapter = [r \in RoomKeys |-> IF r = Room1 THEN {"sA", "sB"} ELSE {}]
    /\ entries = EmptyMap
    /\ hist = [c \in SocketIds |-> NoHistory]
    /\ emitted = Emit("sB", "joined", [token |-> GenerateToken(Room1),
                                       peerName |-> Str(<<"a">>)])
                 \o <<Event("sA", "peer-joined", [name |-> <<"a">>], Room1)>>
    /\ last = Handled("join-room", "sB", Room1, "joined")
    /\ store = EmptyMap
    /\ issued = 0
    /\ challenges = [id \in {CaptchaIds[i] : i \in DOMAIN CaptchaIds} \cup {UnknownId} |->
                        NotIssued]
    /\ clients = [c \in SocketIds |-> NewClient]
    /\ inbox = [c \in SocketIds |-> <<>>]

NextRate ==
    \/ \E c \in RateSockets, m \in Messages(OneRoom) : SendMessage(c, m)
    \/ \E c \in RateSockets : Disconnect(c)
    \/ Tick(HalfWindow, MaxRateTicks * HalfWindow)

SpecRate == InitRate /\ [][NextRate]_vars

\* ------------------------------------------------------------ the input specification
\* sA and sB have joined Room1 at time 0; sA sends every event with a valid payload and
\* with payloads that fail one validation each; sC connects and sends join-room alike
BadRoomIds == {Str(<<"a", "b", "c">>), NotAString}
LongName == Str([i \in 1..(NAME_MAX + 1) |-> "a"])
BadNames == {Str(<<" ">>), LongName, NotAString}
LongKey == [t |-> "string", len |-> 1001, v |-> "spki"]
Oversized == [t |-> "string", len |-> 5 * 1024 * 1024 + 1, v |-> "ciphertext"]
NotAnArray == [t |-> "object", v |-> "history"]

InvalidJoins ==
    {NotAnObject}
    \cup JoinPayloads(BadRoomIds, OneName)
    \cup JoinPayloads(OneRoom, BadNames)

InvalidKeys ==
    {NotAnObject}
    \cup KeyPayloads(BadRoomIds)
    \cup {[t |-> "object", roomId |-> Str(Room1), publicKey |-> k] : k \in {NotAString, LongKey}}

InvalidSyncs ==
    {NotAnObject}
    \cup SyncPayloads(BadRoomIds)
    \cup {[t |-> "object", roomId |-> Str(Room1), messages |-> NotAnArray]}

InvalidTypings ==
    {NotAnObject}
    \cup TypingPayloads(BadRoomIds)
    \cup {[t |-> "object", roomId |-> Str(Room1), name |-> n] : n \in BadNames}

InvalidRooms == {NotAnObject} \cup RoomPayloads(BadRoomIds)

\* the timestamps just outside the tolerance, and one that is not a number
BadTimestamps ==
    {[t |-> "number", v |-> now - 300000], [t |-> "number", v |-> now + 30000],
     [t |-> "string", v |-> now]}

\* send-message payloads with an object payload and one invalid field
InvalidFields ==
    LET good == Message(Str(Room1), NameA, now)
    IN  {[good EXCEPT !.roomId = r] : r \in BadRoomIds}
        \cup {[good EXCEPT !.sender = n] : n \in BadNames}
        \cup {[good EXCEPT !.type = "video"]}
        \cup {[good EXCEPT !.encrypted = e] : e \in {NotAString, Oversized}}
        \cup {[good EXCEPT !.iv = e] : e \in {NotAString, Oversized}}
        \cup {[good EXCEPT !.timestamp = ts] : ts \in BadTimestamps}

InvalidMessages == {NotAnObject} \cup InvalidFields

\* sC connects while sA and sB are in Room1, and joins as well
JoinSockets == {"sA", "sC"}

NextInput ==
    \/ \E h \in Headers : Connect("sC", h)
    \/ \E c \in JoinSockets, p \in InvalidJoins \cup JoinPayloads(OneRoom, OneName) :
          JoinRoom(c, p)
    \/ \E c \in RateSockets, p \in InvalidKeys \cup KeyPayloads(OneRoom) : KeyExchange(c, p)
    \/ \E c \in RateSockets, p \in InvalidSyncs \cup SyncPayloads(OneRoom) : SyncHistory(c, p)
    \/ \E c \in RateSockets, m \in InvalidMessages \cup Messages(OneRoom) : SendMessage(c, m)
    \/ \E c \in RateSockets, p \in InvalidTypings \cup TypingPayloads(OneRoom) : Typing(c, p)
    \/ \E c \in RateSockets, p \in InvalidRooms \cup RoomPayloads(OneRoom) : StopTyping(c, p)
    \/ \E c \in RateSockets, p \in InvalidRooms \cup RoomPayloads(OneRoom) : EndChat(c, p)

SpecInput == InitRate /\ [][NextInput]_vars

\* ------------------------------------------------------------ the handshake specification
\* two connected clients each open one of the room links; the server's events travel
\* to the clients, whose handlers and awaits run in any order the event loop allows
HandshakeSockets == {"sA", "sB"}

InitHandshake ==
    /\ now = 0
    /\ sockets = [c \in SocketIds |->
                    IF c \in HandshakeSockets
                    THEN [state |-> "connected", ip |-> "10.0.0.1"]
                    ELSE [state |-> "new", ip |-> "unset"]]
    /\ connectionsPerIp = [a \in {"10.0.0.1"} |-> 2]
    /\ rooms = <<>>
    /\ adapter = [r \in RoomKeys |-> {}]
    /\ entries = EmptyMap
    /\ hist = [c \in SocketIds |-> NoHistory]
    /\ emitted = <<>>
    /\ last = Handled("connect", "sB", <<>>, "connected")
    /\ store = EmptyMap
    /\ issued = 0
    /\ challenges = [id \in {CaptchaIds[i] : i \in DOMAIN CaptchaIds} \cup {UnknownId} |->
                        NotIssued]
    /\ clients = [c \in SocketIds |-> NewClient]
    /\ inbox = [c \in SocketIds |-> <<>>]

NextHandshake ==
    \/ \E c \in HandshakeSockets, r \in RoomKeys : joinRoom(c, r, NameA)
    \/ \E c \in HandshakeSockets : Receive(c)
    \/ \E c \in HandshakeSockets, i \in 1..3 : Complete(c, i)

\* every delivery and every continuation that is due is eventually run
SpecHandshake == InitHandshake /\ [][NextHandshake]_vars /\ WF_vars(NextHandshake)

\* ------------------------------------------------------------ the probe specification
\* sA and sB have joined Room1 at time 0 and Room2 does not exist; sC connects and,
\* a member of nothing, sends every room event for both room ids, send-message as
\* often as it likes; sA may end the chat, after which Room1 does not exist either;
\* the clock may pass one rate window
ProbeSockets == {"sC"}
ProbeRooms == TwoRooms

NextProbe ==
    \/ \E h \in Headers : Connect("sC", h)
    \/ \E c \in ProbeSockets, p \in KeyPayloads(ProbeRooms) : KeyExchange(c, p)
    \/ \E c \in ProbeSockets, p \in SyncPayloads(ProbeRooms) : SyncHistory(c, p)
    \/ \E c \in ProbeSockets, m \in Messages(ProbeRooms) : SendMessage(c, m)
    \/ \E c \in ProbeSockets, p \in TypingPayloads(ProbeRooms) : Typing(c, p)
    \/ \E c \in ProbeSockets, p \in RoomPayloads(ProbeRooms) : StopTyping(c, p)
    \/ \E c \in ProbeSockets \cup {"sA"}, p \in RoomPayloads(ProbeRooms) : EndChat(c, p)
    \/ Tick(WINDOW_MS, WINDOW_MS)

SpecProbe == InitRate /\ [][NextProbe]_vars

\* ------------------------------------------------------------ the address specification
\* four sockets connect and disconnect, with a forwarded address, with an empty
\* x-forwarded-for header and with none
AddrSockets == {"sA", "sB", "sC", "sD"}
EmptyHeader == Str(<<"">>)
AddrHeaders == Headers \cup {EmptyHeader, NoHeader}

NextAddr ==
    \/ \E c \in AddrSockets, h \in AddrHeaders : Connect(c, h)
    \/ \E c \in AddrSockets : Disconnect(c)

SpecAddr == Init /\ [][NextAddr]_vars

\* ------------------------------------------------------------ the typing specification
\* sA and sB have joined Room1 at time 0; sA sends messages as fast as it likes and
\* typing and stop-typing in between; the clock may pass one rate window
NextTyping ==
    \/ \E c \in RateSockets, m \in Messages(OneRoom) : SendMessage(c, m)
    \/ \E c \in RateSockets, p \in TypingPayloads(OneRoom) : Typing(c, p)
    \/ \E c \in RateSockets, p \in RoomPayloads(OneRoom) : StopTyping(c, p)
    \/ Tick(WINDOW_MS, WINDOW_MS)

SpecTyping == InitRate /\ [][NextTyping]_vars

\* ------------------------------------------------------------ the room id specification
\* two sockets connect and send join-room and key-exchange with room ids of 3, 4, 8 and
\* 17 characters and with one that holds a character outside the alphabet
LongRoomId == Str([i \in 1..17 |-> "a"])
OddRoomId == Str(<<"r", "0", "0", "m", "!", "2", "3", "4">>)
RoomIds == {Str(<<"a", "b", "c">>), Str(ShortRoom), Str(Room1), LongRoomId, OddRoomId}
IdSockets == {"sA", "sB"}

NextRoomId ==
    \/ \E c \in IdSockets, h \in Headers : Connect(c, h)
    \/ \E c \in IdSockets, p \in JoinPayloads(RoomIds, OneName) : JoinRoom(c, p)
    \/ \E c \in IdSockets, p \in KeyPayloads(RoomIds) : KeyExchange(c, p)
    \/ \E c \in IdSockets : Disconnect(c)

SpecRoomId == Init /\ [][NextRoomId]_vars

\* ============================================================ claims
\* the vocabulary of the claims, on the state alone
InLedger(roomId, c) ==
    \E i \in DOMAIN rooms :
        /\ rooms[i].roomId = roomId
        /\ \E j \in DOMAIN rooms[i].users : rooms[i].users[j].socketId = c

Members(roomId) ==
    {c \in SocketIds : InLedger(roomId, c)}

Sent(evs, to, ev) == {i \in DOMAIN evs : evs[i].to = to /\ evs[i].ev = ev}

RelayOps == {"key-exchange", "sync-history", "send-message", "typing", "stop-typing"}
ForwardedEvents ==
    {"key-exchange", "sync-history", "receive-message", "typing", "stop-typing", "chat-ended"}

\* C1: in every reachable state every room of the ledger holds at most 2 members and
\* no socket id appears twice in a room's member list.
C1_RoomCap ==
    \A i \in DOMAIN rooms :
        /\ Len(rooms[i].users) <= 2
        /\ \A j, k \in DOMAIN rooms[i].users :
              j # k => rooms[i].users[j].socketId # rooms[i].users[k].socketId

\* a third socket has asked to join a room of two
C1_Witness ==
    /\ last.op = "join-room"
    /\ last.res = "room-full"
    /\ Cardinality(Members(last.roomId)) = 2
    /\ last.socket \notin Members(last.roomId)

\* C2: a receive-message goes only to the other current ledger member of the room it
\* was sent to: never to the sender, never to more than one socket, never to a socket
\* that is not a member of that room when it is relayed.
C2_RelayOnlyToPeer ==
    \A i \in DOMAIN emitted :
        emitted[i].ev = "receive-message" =>
            /\ emitted[i].to # last.socket
            /\ InLedger(emitted[i].room, emitted[i].to)
            /\ \A j \in DOMAIN emitted : emitted[j].ev = "receive-message" => j = i

\* C3: a key-exchange, sync-history, send-message, typing, stop-typing or end-chat
\* event whose sender is not a member of the room it names is forwarded to no socket
\* and leaves the ledger as it was.
C3_NonMemberDropped ==
    [][ ( /\ now' = now
          /\ last'.op \in RelayOps \cup {"end-chat"}
          /\ ~InLedger(last'.roomId, last'.socket) )
        => ( /\ rooms' = rooms
             /\ \A i \in DOMAIN emitted' : emitted'[i].ev \notin ForwardedEvents ) ]_vars

\* a socket still subscribed to the channel of a room it is no longer a member of has
\* sent a message to that room, which other sockets are members of
C3_Witness ==
    /\ last.op = "send-message"
    /\ last.res = "dropped"
    /\ last.socket \in adapter[Room1]
    /\ last.roomId = Room1
    /\ Cardinality(Members(Room1)) = 2
    /\ last.socket \notin Members(Room1)

UsersOf(roomId) ==
    IF \E i \in DOMAIN rooms : rooms[i].roomId = roomId
    THEN (CHOOSE room \in {rooms[i] : i \in DOMAIN rooms} : room.roomId = roomId).users
    ELSE <<>>

StoredName(roomId, c) ==
    LET users == UsersOf(roomId)
    IN  users[CHOOSE j \in DOMAIN users : users[j].socketId = c].name

\* C4: the first valid join-room for a room id makes the joiner the only member and
\* answers joined with peerName null; a join by a second socket makes the member list
\* [first, second], answers joined with the first member's stored name as a non-null
\* peerName, and sends exactly one peer-joined, with the second's sanitized name, to
\* the first member and to no one else.
C4_JoinNotifies ==
    (last.op = "join-room" /\ last.res = "joined") =>
        LET c == last.socket
            users == UsersOf(last.roomId)
            joined == Sent(emitted, c, "joined")
            peerJoined == {i \in DOMAIN emitted : emitted[i].ev = "peer-joined"}
        IN  /\ Cardinality(joined) = 1
            /\ Len(users) \in {1, 2}
            /\ Len(users) = 1 =>
                  /\ users[1].socketId = c
                  /\ \A i \in joined : emitted[i].data.peerName = Null
            /\ (Len(users) = 2 /\ users[2].socketId = c) =>
                  /\ \A i \in joined :
                        /\ emitted[i].data.peerName # Null
                        /\ emitted[i].data.peerName = Str(users[1].name)
                  /\ Cardinality(peerJoined) = 1
                  /\ \A i \in peerJoined :
                        /\ emitted[i].to = users[1].socketId
                        /\ emitted[i].data.name = users[2].name

\* C5: a valid join-room by a non-member for a room of 2 members emits room-full to
\* that socket and nothing else, leaves the ledger as it was, and the rejected socket
\* is not subscribed to the room's channel.
C5_RoomFullRejects ==
    [][ \A c \in SocketIds, r \in RoomKeys :
          ( /\ now' = now
            /\ last'.op = "join-room"
            /\ last'.socket = c
            /\ last'.roomId = r
            /\ last'.res # "invalid-name"
            /\ Cardinality(Members(r)) = 2
            /\ ~InLedger(r, c) )
          => ( /\ emitted' = <<Event(c, "room-full", NoData, <<>>)>>
               /\ rooms' = rooms
               /\ c \notin adapter'[r] ) ]_vars

\* C6: after a member's end-chat the other member has been sent exactly one chat-ended
\* and the sender none, the room is gone from the ledger, nobody is subscribed to its
\* channel, and a later relay event of a socket that has not joined it again is dropped.
C6_EndChatEnds ==
    [][ \A c \in SocketIds, r \in RoomKeys :
          /\ ( /\ now' = now
               /\ last'.op = "end-chat"
               /\ last'.socket = c
               /\ last'.roomId = r
               /\ InLedger(r, c) )
             => ( /\ \A u \in Members(r) \ {c} :
                        Cardinality(Sent(emitted', u, "chat-ended")) = 1
                  /\ Sent(emitted', c, "chat-ended") = {}
                  /\ \A i \in DOMAIN rooms' : rooms'[i].roomId # r
                  /\ adapter'[r] = {} )
          /\ ( /\ now' = now
               /\ last'.op \in RelayOps
               /\ last'.socket = c
               /\ last'.roomId = r
               /\ ~InLedger(r, c) )
             => \A i \in DOMAIN emitted' : emitted'[i].ev \notin ForwardedEvents ]_vars

\* C7: once the disconnect handler of a socket has run, the socket is a member of no
\* room of the ledger and no rate-limit window is stored for it.
C7_DisconnectReleases ==
    \A c \in SocketIds :
        sockets[c].state = "closed" =>
            /\ c \notin DOMAIN entries
            /\ \A r \in RoomKeys : ~InLedger(r, c)

\* C8: when a socket disconnects, in every room where it was a member and another
\* member remains, that member is sent exactly one peer-left carrying the departed
\* member's stored name; a socket that was a member of no room causes no peer-left.
C8_PeerLeftEveryRoom ==
    [][ \A c \in SocketIds :
          ( /\ now' = now
            /\ last'.op = "disconnect"
            /\ last'.socket = c )
          => ( /\ \A r \in RoomKeys :
                     InLedger(r, c) =>
                        \A u \in Members(r) \ {c} :
                           /\ Cardinality({i \in Sent(emitted', u, "peer-left") :
                                              emitted'[i].room = r}) = 1
                           /\ \A i \in Sent(emitted', u, "peer-left") :
                                 emitted'[i].room = r =>
                                    emitted'[i].data.name = StoredName(r, c)
               /\ (\A r \in RoomKeys : ~InLedger(r, c)) =>
                     \A i \in DOMAIN emitted' : emitted'[i].ev # "peer-left" ) ]_vars

\* a rate check of socket c has just run (send-message is its only caller)
Checked(c) ==
    /\ now' = now
    /\ last'.op = "send-message"
    /\ last'.socket = c
    /\ last'.res # "ignored"

\* the allowed checks of c that lie less than 10,000 ms back
GrantsInWindow(c) ==
    Cardinality({i \in DOMAIN hist[c].granted : now - hist[c].granted[i] < 10000})

\* C9: a check is allowed iff fewer than 30 earlier allowed checks of the socket lie
\* inside the trailing 10,000 ms, and the stored list never holds more than 30 entries.
C9_RateWindow ==
    [][ \A c \in SocketIds :
          Checked(c) =>
             /\ (last'.res # "rate-limited") <=> (GrantsInWindow(c) < 30)
             /\ c \in DOMAIN entries'
             /\ Len(entries'[c]) <= 30 ]_vars

\* the 31st call of a window that began at one instant and ends at a later one is denied
C9_Witness ==
    /\ last.op = "send-message"
    /\ last.res = "rate-limited"
    /\ Len(entries["sA"]) = 30
    /\ entries["sA"][1] < entries["sA"][30]
    /\ now = entries["sA"][30]

\* the earliest recorded timestamp of c is 10,000 ms old or older
EarliestLeft(c) ==
    /\ c \in DOMAIN entries
    /\ \E i \in DOMAIN entries[c] :
          /\ \A j \in DOMAIN entries[c] : entries[c][i] <= entries[c][j]
          /\ now - entries[c][i] >= 10000

\* C10: a denied check records no timestamp, and the first check made after the
\* earliest recorded timestamp has left the window is allowed, however many checks
\* were denied before it.
C10_DeniedNotRecorded ==
    [][ \A c \in SocketIds :
          Checked(c) =>
             /\ last'.res = "rate-limited" =>
                   /\ c \in DOMAIN entries
                   /\ entries'[c] = entries[c]
             /\ EarliestLeft(c) => last'.res # "rate-limited" ]_vars

\* sA is allowed again after MaxDenied denied checks, its window having been full
C10_Witness ==
    /\ last.op = "send-message"
    /\ last.socket = "sA"
    /\ last.res = "relayed"
    /\ hist["sA"].denied = MaxDenied
    /\ now >= 10000
    /\ entries["sA"][Len(entries["sA"])] = now

\* the lastActivity of every room of a ledger, by position
Activity(rs) == [i \in DOMAIN rs |-> <<rs[i].roomId, rs[i].lastActivity>>]

C11_Witness30th ==
    /\ last.op = "send-message"
    /\ last.res = "relayed"
    /\ GrantsInWindow("sA") = 30
    /\ now > hist["sA"].granted[1]
    /\ Cardinality(Sent(emitted, "sB", "receive-message")) = 1

Addresses == {Head(h.v) : h \in ConnHeaders}

CountOf(a) == IF a \in DOMAIN connectionsPerIp THEN connectionsPerIp[a] ELSE 0

\* socket c has just gone through the connection middleware
ConnectStep(c) == sockets[c].state = "new" /\ sockets'[c].state # "new"

HandlerOps == RelayOps \cup {"join-room", "end-chat"}

\* C12: every count of the per-address map lies between 1 and 5; a connection attempt
\* from an address whose count is 5 is refused and changes no count, an accepted one
\* came from an address below 5 and adds one to its count; no handler ever runs for a
\* refused connection, which stays refused and enters no room, channel or rate window.
C12_ConnectionCap ==
    [][ /\ \A a \in DOMAIN connectionsPerIp' : connectionsPerIp'[a] \in 1..5
        /\ \A c \in SocketIds :
              /\ ConnectStep(c) =>
                    /\ (\A a \in Addresses : CountOf(a) = 5) => sockets'[c].state = "refused"
                    /\ sockets'[c].state = "refused" =>
                          /\ connectionsPerIp' = connectionsPerIp
                          /\ \E a \in Addresses : CountOf(a) = 5
                    /\ sockets'[c].state = "connected" =>
                          /\ CountOf(sockets'[c].ip) < 5
                          /\ connectionsPerIp'[sockets'[c].ip] = CountOf(sockets'[c].ip) + 1
              /\ sockets[c].state = "refused" =>
                    /\ sockets'[c].state = "refused"
                    /\ ~(last'.op \in HandlerOps /\ last'.socket = c)
                    /\ \A r \in RoomKeys : ~InLedger(r, c) /\ c \notin adapter'[r]
                    /\ c \notin DOMAIN entries' ]_vars

\* the sixth connection from 10.0.0.1 has just been refused
C12_Witness ==
    /\ last.op = "connect"
    /\ sockets[last.socket].state = "refused"
    /\ connectionsPerIp["10.0.0.1"] = 5
    /\ Cardinality({c \in SocketIds : sockets[c].state = "connected"}) = 5

\* the sweep timer has just fired
SweepStep == last'.op = "sweep" /\ now' = now

\* c is in the member list that the ledger rs holds for roomId
ListedIn(rs, roomId, c) ==
    \E i \in DOMAIN rs :
        /\ rs[i].roomId = roomId
        /\ \E j \in DOMAIN rs[i].users : rs[i].users[j].socketId = c

\* the rooms of a ledger whose lastActivity is more than 3,600,000 ms before t
Stale(rs, t) == {i \in DOMAIN rs : t - rs[i].lastActivity > 3600000}

\* C13: a run of the sweep removes exactly the rooms whose lastActivity is more than
\* 3,600,000 ms in the past and leaves every other room as it was, in the same order;
\* afterwards no connection is a member of a removed room.
C13_SweepRemovesStale ==
    [][ SweepStep =>
          /\ Len(rooms') = Len(rooms) - Cardinality(Stale(rooms, now))
          /\ \A i \in DOMAIN rooms :
                IF i \in Stale(rooms, now)
                THEN /\ \A j \in DOMAIN rooms' : rooms'[j].roomId # rooms[i].roomId
                     /\ \A c \in SocketIds : ~ListedIn(rooms', rooms[i].roomId, c)
                ELSE rooms'[i - Cardinality({k \in Stale(rooms, now) : k < i})] = rooms[i]
      ]_vars

\* the sweep has removed a room aged ROOM_TTL_MS + 1 (its channel still has a
\* subscriber) and kept one aged exactly ROOM_TTL_MS
C13_Witness ==
    /\ last.op = "sweep"
    /\ now = 3600001
    /\ \E r \in RoomKeys : adapter[r] # {} /\ Members(r) = {}
    /\ \E i \in DOMAIN rooms : rooms[i].lastActivity = 1

\* C14: every successful relay in a room (key-exchange, sync-history, send-message,
\* typing or stop-typing forwarded for a member) sets the lastActivity of that room to
\* the current time.
C14_RelayTouches ==
    [][ (last'.op \in RelayOps /\ last'.res = "relayed" /\ now' = now) =>
          \E i \in DOMAIN rooms' :
             /\ rooms'[i].roomId = last'.roomId
             /\ rooms'[i].lastActivity = now ]_vars

\* the part of C14 that the handlers keep: a relayed send-message sets lastActivity
C14_SendMessageTouches ==
    [][ (last'.op = "send-message" /\ last'.res = "relayed" /\ now' = now) =>
          \E i \in DOMAIN rooms' :
             /\ rooms'[i].roomId = last'.roomId
             /\ rooms'[i].lastActivity = now ]_vars

\* the results of the verify calls for a challenge id, in the order they were made
Calls(id) == challenges[id].results

\* C15: the first verify call for an id removes its entry whatever the answer and
\* whether or not the entry has expired: once a call has been made the id is not in
\* the store, at most one call for the id has returned true, and every call after the
\* first has returned false.
C15_VerifyOnce ==
    \A id \in DOMAIN challenges :
        /\ Len(Calls(id)) >= 1 => id \notin DOMAIN store
        /\ Cardinality({i \in DOMAIN Calls(id) : Calls(id)[i]}) <= 1
        /\ \A i \in DOMAIN Calls(id) : i > 1 => ~Calls(id)[i]

\* id1 was verified and then refused; id2 was refused and has just been refused again,
\* this time with the right answer and before its expiry
C15_Witness ==
    /\ Calls("id1") = <<TRUE, FALSE>>
    /\ Calls("id2") = <<FALSE, FALSE>>
    /\ last = Verified("id2", AnswerRight, FALSE)
    /\ now <= challenges["id2"].createdAt + 300000

\* a verify call has just been made
VerifyStep == last'.op = "verify" /\ challenges' # challenges

\* the answer as verify compares it: trimmed, in lower case
Normalized(s) == ToLowerCase(Trim(s))

\* C16: verify returns true only if the store holds an entry for the id, the current
\* time is not past the creation time of the id plus 300,000 ms, and the trimmed answer
\* equals the created text ignoring case; it returns false for an id that was never
\* created, has been verified or swept, or has expired, whatever the answer.
C16_VerifyConditions ==
    [][ VerifyStep =>
          LET id == last'.socket
          IN  /\ last'.res = "true" =>
                    /\ id \in DOMAIN store
                    /\ challenges[id].issued
                    /\ now <= challenges[id].createdAt + 300000
                    /\ Normalized(last'.answer) = Normalized(challenges[id].text)
              /\ (\/ id \notin DOMAIN store
                  \/ ~challenges[id].issued
                  \/ now > challenges[id].createdAt + 300000) => last'.res = "false" ]_vars

\* id2, created at 1, has just been verified with " Ab3De<TAB>" at exactly 300,001,
\* after id1, created at 0, had been refused at that time
C16_Witness ==
    /\ now = 300001
    /\ last = Verified("id2", AnswerRight, TRUE)
    /\ challenges["id2"].createdAt = 1
    /\ Calls("id2") = <<TRUE>>
    /\ challenges["id1"].createdAt = 0
    /\ Calls("id1") = <<FALSE>>
    /\ Calls(UnknownId) # <<>>

\* id1, created at 0, has just been refused the right answer at 300,001
C16_WitnessExpired ==
    /\ now = 300001
    /\ last = Verified("id1", AnswerRight, FALSE)
    /\ challenges["id1"].createdAt = 0
    /\ Calls("id1") = <<FALSE>>

\* the disconnect handler of c, the only caller of leave, has just run
LeftStep(c) ==
    /\ last'.op = "disconnect"
    /\ last'.socket = c
    /\ sockets[c].state = "connected"
    /\ sockets'[c].state = "closed"

\* the rooms of the ledger that list c
Held(c) == {r \in RoomKeys : InLedger(r, c)}

Listed(rs, r) == \E i \in DOMAIN rs : rs[i].roomId = r
RoomIn(rs, r) == CHOOSE room \in {rs[i] : i \in DOMAIN rs} : room.roomId = r

\* what leave(c) is to do to a room r that lists c: a room of two keeps the other
\* member, its token and its createdAt; a room of one is deleted
LeftRoom(c, r) ==
    IF Len(UsersOf(r)) = 2
    THEN /\ Listed(rooms', r)
         /\ RoomIn(rooms', r).users = SelectSeq(UsersOf(r), LAMBDA u : u.socketId # c)
         /\ Len(RoomIn(rooms', r).users) = 1
         /\ RoomIn(rooms', r).token = RoomIn(rooms, r).token
         /\ RoomIn(rooms', r).createdAt = RoomIn(rooms, r).createdAt
    ELSE ~Listed(rooms', r)

\* what leave(c) returns: a room that listed c, and the name stored for c in it
LeftResult(c) ==
    /\ last'.res = "left"
    /\ last'.roomId \in Held(c)
    /\ \A i \in DOMAIN emitted' :
          /\ emitted'[i].ev = "peer-left"
          /\ emitted'[i].data.name = StoredName(last'.roomId, c)

\* C17: leave(c) for a connection in a room of two removes only c and keeps the room
\* with the other member, its token and its createdAt, and returns the room id with the
\* stored name of c; for the sole member of a room it deletes the room; for a
\* connection in no room it returns none and changes nothing.
C17_Leave ==
    [][ \A c \in SocketIds :
          LeftStep(c) =>
             IF Held(c) = {}
             THEN last'.res = "none" /\ rooms' = rooms
             ELSE /\ LeftResult(c)
                  /\ \A r \in Held(c) : LeftRoom(c, r) ]_vars

\* the part of C17 that leave keeps: the above for the first room, in insertion
\* order, that lists c, every other room staying as it was
C17_LeaveFirstRoom ==
    [][ \A c \in SocketIds :
          LeftStep(c) =>
             IF Held(c) = {}
             THEN last'.res = "none" /\ rooms' = rooms
             ELSE /\ LeftResult(c)
                  /\ LeftRoom(c, last'.roomId)
                  /\ \A r \in RoomKeys \ {last'.roomId} :
                        /\ Listed(rooms', r) <=> Listed(rooms, r)
                        /\ Listed(rooms, r) => RoomIn(rooms', r) = RoomIn(rooms, r) ]_vars

\* C18: in every reachable state every room of the ledger has at least one member.
C18_NoEmptyRoom ==
    \A i \in DOMAIN rooms : Len(rooms[i].users) >= 1

\* the sole member of a room has just left and the room is gone, another room remains
C18_Witness ==
    /\ last.op = "disconnect"
    /\ last.res = "left"
    /\ ~Listed(rooms, last.roomId)
    /\ rooms # <<>>

\* the token derivation of a room id: its HMAC-SHA256 under the secret of the process
Derived(r) == <<"hmac-sha256", "SERVER_SECRET", r>>

\* C19: the token stored for a room is the derivation of its room id, whatever
\* createOrJoin does for that room id (creation, reconnect, second join, rejection as
\* full) it returns that token, and so does the joined event that carries it.
C19_TokenBound ==
    /\ \A i \in DOMAIN rooms : rooms[i].token = Derived(rooms[i].roomId)
    /\ \A r \in RoomKeys : \A c \in SocketIds :
          CreateOrJoin(rooms, r, c, <<"a">>, now).token = Derived(r)
    /\ \A i \in DOMAIN emitted :
          emitted[i].ev = "joined" => emitted[i].data.token = Derived(last.roomId)

\* one room has two members and rejects a third, the other has one member and would
\* accept a second or the reconnect of the first; the last join was answered with the
\* token of its room
C19_Witness ==
    /\ \E r \in RoomKeys :
          /\ Cardinality(Members(r)) = 2
          /\ ~CreateOrJoin(rooms, r, "sC", <<"a">>, now).success
    /\ \E r \in RoomKeys : Cardinality(Members(r)) = 1
    /\ last.op = "join-room"
    /\ last.res = "joined"
    /\ emitted[1].ev = "joined"
    /\ emitted[1].data.token = Derived(last.roomId)

\* socket c has just sent an event whose payload fails validation
InvalidOther(c) ==
    \/ \E p \in InvalidJoins : JoinRoom(c, p)
    \/ \E p \in InvalidKeys : KeyExchange(c, p)
    \/ \E p \in InvalidSyncs : SyncHistory(c, p)
    \/ \E p \in InvalidTypings : Typing(c, p)
    \/ \E p \in InvalidRooms : StopTyping(c, p)
    \/ \E p \in InvalidRooms : EndChat(c, p)

InvalidEvent(c) == InvalidOther(c) \/ \E m \in InvalidMessages : SendMessage(c, m)

\* nothing is relayed, and the ledger, the channels and the connection counts stay
NothingRelayed(c) ==
    /\ \A i \in DOMAIN emitted' : emitted'[i].to = c /\ emitted'[i].ev = "error-msg"
    /\ rooms' = rooms
    /\ adapter' = adapter
    /\ connectionsPerIp' = connectionsPerIp

\* C20: an inbound event whose payload fails validation is not relayed and leaves the
\* ledger, the rate-limit windows and the connection counts exactly as they were.
C20_InvalidChangesNothing ==
    [][ \A c \in SocketIds :
          InvalidEvent(c) => NothingRelayed(c) /\ entries' = entries ]_vars

\* the timestamps of c that the rate check keeps: those less than 10,000 ms old
KeptWindow(c) ==
    SelectSeq(IF c \in DOMAIN entries THEN entries[c] ELSE <<>>,
              LAMBDA x : now - x < 10000)

\* C20, amended: an inbound event whose payload fails validation is not relayed and
\* leaves the ledger and the connection counts as they were; it leaves the rate-limit
\* windows as they were too unless it is a send-message with an object payload, whose
\* rate check runs before the validation: if allowed, the current time is added to the
\* window of the sender and nothing is emitted; if denied, the sender gets the error-msg.
C20_InvalidChangesWindowOnly ==
    [][ \A c \in SocketIds :
          /\ (InvalidOther(c) \/ SendMessage(c, NotAnObject)) =>
                NothingRelayed(c) /\ entries' = entries
          /\ (\E m \in InvalidFields : SendMessage(c, m)) =>
                /\ NothingRelayed(c)
                /\ \A s \in DOMAIN entries \ {c} : s \in DOMAIN entries' /\ entries'[s] = entries[s]
                /\ DOMAIN entries' = DOMAIN entries \cup {c}
                /\ IF Len(KeptWindow(c)) < 30
                   THEN entries'[c] = Append(KeptWindow(c), now) /\ emitted' = <<>>
                   ELSE entries'[c] = KeptWindow(c) /\ Len(emitted') = 1 ]_vars

\* sA, a member of r00m1234, has just sent its first send-message, for r00m1234 and
\* with an invalid field: it was dropped and its time is in the window of sA
C20_Witness ==
    /\ last = Handled("send-message", "sA", Room1, "dropped")
    /\ InLedger(Room1, "sA")
    /\ entries["sA"] = <<now>>
    /\ emitted = <<>>
    /\ hist["sA"].denied = 0

\* exactly one error-msg with the given text, to c, and nothing else to anybody; the
\* ledger and the channels stay as they were
OnlyError(c, text) ==
    /\ Len(emitted') = 1
    /\ emitted'[1].to = c
    /\ emitted'[1].ev = "error-msg"
    /\ emitted'[1].data.message = text
    /\ rooms' = rooms
    /\ adapter' = adapter

C22_Reconnect ==
    \A r \in RoomKeys : \A c \in Members(r) : \A name \in {<<"a">>, <<"b">>} :
        LET before == RoomIn(rooms, r)
            res == CreateOrJoin(rooms, r, c, name, now)
            after == RoomIn(res.rooms, r)
        IN  /\ res.success
            /\ res.users = after.users
            /\ Len(after.users) = Len(before.users)
            /\ \A j \in DOMAIN before.users :
                  /\ after.users[j].socketId = before.users[j].socketId
                  /\ after.users[j].name =
                        IF before.users[j].socketId = c THEN name ELSE before.users[j].name
            /\ after.lastActivity = now
            /\ after.token = before.token
            /\ after.createdAt = before.createdAt
            /\ Len(res.rooms) = Len(rooms)
            /\ \A i \in DOMAIN rooms : rooms[i].roomId # r => res.rooms[i] = rooms[i]

\* the first member of a room of two has just joined it again, later than the room
\* was created
C22_Witness ==
    /\ last.op = "join-room"
    /\ last.res = "joined"
    /\ Len(UsersOf(last.roomId)) = 2
    /\ UsersOf(last.roomId)[1].socketId = last.socket
    /\ RoomIn(rooms, last.roomId).lastActivity = now
    /\ RoomIn(rooms, last.roomId).createdAt < now

\* the events that carry a relayed payload, and the one a relay handler forwards
RelayEvents == {"key-exchange", "sync-history", "receive-message", "typing", "stop-typing"}
EventOf(op) == IF op = "send-message" THEN "receive-message" ELSE op

\* the relayed payloads among the events just emitted
Forwarded == {i \in DOMAIN emitted' : emitted'[i].ev \in RelayEvents}

\* C23: relay is at-most-once and nothing is queued: a relay handler forwards its own
\* event, only when it accepts it, and at most once to each recipient; every other
\* step (a join, a connect, a disconnect, an end-chat, a sweep) forwards no relayed
\* payload, so an event handled while the sender was alone never reaches a later peer.
C23_AtMostOnce ==
    [][ now' = now =>
          IF last'.op \in RelayOps
          THEN /\ \A i \in Forwarded :
                     /\ emitted'[i].ev = EventOf(last'.op)
                     /\ emitted'[i].to # last'.socket
                     /\ last'.res = "relayed"
               /\ \A u \in SocketIds :
                     Cardinality({i \in Forwarded : emitted'[i].to = u}) <= 1
          ELSE Forwarded = {} ]_vars

\* sA has sent a message at this instant; sB, the only other socket that ever
\* connected, has just joined the room of sA and has been sent joined and nothing else
C23_Witness ==
    /\ last = Handled("join-room", "sB", Room1, "joined")
    /\ hist["sA"].granted = <<now>>
    /\ UsersOf(Room1)[1].socketId = "sA"
    /\ sockets["sC"].state = "new"
    /\ \A i \in DOMAIN emitted : emitted[i].to = "sB" => emitted[i].ev = "joined"
    /\ Cardinality(Sent(emitted, "sB", "joined")) = 1

\* socket c, not a member of r, has just sent a valid join-room for r
JoinStep(c, r) ==
    /\ now' = now
    /\ last'.op = "join-room"
    /\ last'.socket = c
    /\ last'.roomId = r
    /\ last'.res \in {"joined", "room-full"}
    /\ ~InLedger(r, c)

\* a member of r is still connected from the address of c: the page that c reloads,
\* whose disconnect the server has not handled yet
OldConnection(c, r) ==
    \E old \in Members(r) :
        /\ sockets[old].state = "connected"
        /\ sockets[old].ip = sockets[c].ip

\* C24: when a member of a room of two reloads the page, the join-room of its new
\* connection is answered with joined, not room-full, also when the server handles it
\* before the disconnect of the old connection.
C24_RefreshAdmitted ==
    [][ \A c \in SocketIds : \A r \in RoomKeys :
          (JoinStep(c, r) /\ Cardinality(Members(r)) = 2 /\ OldConnection(c, r)) =>
             last'.res = "joined" ]_vars

\* the ordering of C24 that the server keeps: once the disconnect of the old
\* connection has been handled and has left one member, the new connection is admitted
C24_AdmittedAfterDisconnect ==
    [][ \A c \in SocketIds : \A r \in RoomKeys :
          (JoinStep(c, r) /\ Cardinality(Members(r)) <= 1) => last'.res = "joined" ]_vars

\* ---- C25
BothJoined ==
    \E r \in RoomKeys : \A c \in HandshakeSockets : IsMember(rooms, r, c) /\ Connected(c)

BothEncrypted ==
    \A c \in HandshakeSockets :
        clients[c].encrypted /\ clients[c].sharedKey = HandshakeSockets

\* nothing is on its way to a client and no await of a client is pending
Settled == \A c \in HandshakeSockets : inbox[c] = <<>> /\ clients[c].tasks = <<>>

\* C25: once two clients have both joined the same room and stay connected, each
\* eventually derives the shared key from the other's public key and shows the
\* conversation as encrypted, whatever the order of the deliveries and of the
\* key-pair generations
C25_HandshakeCompletes == BothJoined ~> BothEncrypted

\* C25, side check: the exchange can complete (the order of the README's diagram)
C25_CanComplete == ~(BothJoined /\ Settled /\ BothEncrypted)

\* C25, side check: it can also end with both joined, nothing pending and no shared key
C25_NeverStuck == ~(BothJoined /\ Settled /\ ~BothEncrypted)

\* ---- C26
\* the part of what a handler emitted that goes to connection c
ToSocket(events, c) == SelectSeq(events, LAMBDA e : e.to = c)

\* the answer to a room event of c as far as c's own rate window decides it
RateAnswer(c, op) ==
    IF op = "send-message" /\ ~RateCheck(entries, c, now).allowed
    THEN Emit(c, "error-msg", [message |-> "Rate limited. Slow down."])
    ELSE <<>>

\* the step handles room event op of c, with a well-formed payload naming room r
RoomEvent(op, c, r) ==
    IF op = "key-exchange" THEN \E p \in KeyPayloads({Str(r)}) : KeyExchange(c, p)
    ELSE IF op = "sync-history" THEN \E p \in SyncPayloads({Str(r)}) : SyncHistory(c, p)
    ELSE IF op = "send-message" THEN \E m \in Messages({Str(r)}) : SendMessage(c, m)
    ELSE IF op = "typing" THEN \E p \in TypingPayloads({Str(r)}) : Typing(c, p)
    ELSE IF op = "stop-typing" THEN \E p \in RoomPayloads({Str(r)}) : StopTyping(c, p)
    ELSE \E p \in RoomPayloads({Str(r)}) : EndChat(c, p)

RoomEvents == RelayOps \cup {"end-chat"}

\* C26: what is sent to a connection c in answer to its key-exchange, sync-history,
\* send-message, typing, stop-typing or end-chat naming a room r it is no member of is
\* fixed by the event and by c's own rate window: the room list has no part in it, so
\* the answer is the same whether r exists with other members or does not exist
C26_NoExistenceLeak ==
    [][\A c \in ProbeSockets \cup {"sA"}, r \in RoomKeys, op \in RoomEvents :
          (~IsMember(rooms, r, c) /\ RoomEvent(op, c, r))
              => ToSocket(emitted', c) = RateAnswer(c, op)]_vars

\* sC's key-exchange for the room of sA and sB has been dropped without an answer
C26_Witness ==
    /\ last = Handled("key-exchange", "sC", Room1, "dropped")
    /\ IsMember(rooms, Room1, "sA") /\ IsMember(rooms, Room1, "sB")
    /\ emitted = <<>>

\* the same event for a room that does not exist, and a rate-limited probe of each kind
C26_WitnessAbsent ==
    /\ last = Handled("key-exchange", "sC", Room2, "dropped")
    /\ ~HasRoom(rooms, Room2)
    /\ emitted = <<>>

C26_WitnessLimited ==
    /\ last = Handled("send-message", "sC", Room1, "rate-limited")
    /\ HasRoom(rooms, Room1)

\* ---- C27
\* the token a join-room payload carries, if any
TokenOf(payload) == IF "token" \in DOMAIN payload THEN payload.token ELSE <<>>

\* the step is a join-room of c with payload p that makes c a new member of existing room r
AdmittedToExisting(c, p, r) ==
    /\ JoinRoom(c, p)
    /\ p.roomId = Str(r)
    /\ HasRoom(rooms, r)
    /\ ~IsMember(rooms, r, c)
    /\ ListedIn(rooms', r, c)

\* C27: a join-room that adds a connection to a room that already exists is admitted
\* only when its payload carries the HMAC token of that room, that is a token for
\* which verifyToken(roomId, token) is true
C27_TokenRequired ==
    [][\A c \in SocketIds, r \in RoomKeys, p \in JoinPayloads(TwoRooms, TwoNames) :
          AdmittedToExisting(c, p, r) => VerifyToken(r, TokenOf(p))]_vars

\* ---- C28
\* the step is a join-room of c with payload p that makes c a new member of a room
AdmittedByJoin(c, p) ==
    /\ JoinRoom(c, p)
    /\ ~ListedIn(rooms, p.roomId.v, c)
    /\ ListedIn(rooms', p.roomId.v, c)

\* some verify call for a challenge id and answer carried by the payload returned true
VerifiedChallenge(p) ==
    /\ "captchaId" \in DOMAIN p
    /\ "captchaAnswer" \in DOMAIN p
    /\ p.captchaId \in DOMAIN challenges
    /\ \E i \in DOMAIN challenges[p.captchaId].results :
          challenges[p.captchaId].results[i]

\* C28: a connection becomes a member of a room through join-room only after a
\* verify call of the captcha store, for a challenge id and answer carried by that
\* join, has returned true
C28_CaptchaRequired ==
    [][\A c \in SocketIds, p \in JoinPayloads(TwoRooms, TwoNames) :
          AdmittedByJoin(c, p) => VerifiedChallenge(p)]_vars

\* ---- C29
\* the rooms of the ledger that list connection c as a member
RoomsOf(c) == {i \in DOMAIN rooms : \E j \in DOMAIN rooms[i].users : rooms[i].users[j].socketId = c}

\* C29: in every reachable state a connection id is a member of at most one room of
\* the ledger, whatever join-room events it has sent, joins to different room ids with
\* no end-chat or disconnect in between included
C29_OneRoomPerConnection == \A c \in SocketIds : Cardinality(RoomsOf(c)) <= 1

\* ---- C30
\* C30: in every reachable state the connections subscribed to the broadcast channel
\* of a room id are members of the room of that id in the ledger; in particular a
\* connection whose membership was removed by the TTL sweep or by a leave is no
\* longer subscribed to the channel of that room id
C30_SubscribersAreMembers ==
    \A r \in RoomKeys : \A c \in adapter[r] : ListedIn(rooms, r, c)

\* C30, side check: the part about a leave holds; a step that is not the sweep never
\* leaves a subscriber that is no member behind
C30_OnlySweepStrands ==
    [][ (\A r \in RoomKeys : \A c \in adapter[r] : ListedIn(rooms, r, c))
            => (Sweep \/ \A r \in RoomKeys : \A c \in adapter'[r] : ListedIn(rooms', r, c))]_vars

\* ---- C31
\* some connection other than `to` has been added to the member list of r by this step
NewMemberBeside(to, r) ==
    \E c \in SocketIds : c # to /\ ~ListedIn(rooms, r, c) /\ ListedIn(rooms', r, c)

\* C31: a handler sends peer-joined to a connection only when a different connection
\* has just been added to the member list of the room; a join-room repeated by a
\* connection that is already a member sends no peer-joined to its peer
C31_PeerJoinedOnlyForNewMember ==
    [][ now' = now =>
          \A i \in DOMAIN emitted' :
              emitted'[i].ev = "peer-joined" =>
                  /\ last'.op = "join-room"
                  /\ NewMemberBeside(emitted'[i].to, emitted'[i].room) ]_vars

\* C31, side check: a join-room that adds the sender to the member list sends
\* peer-joined to nobody but the subscribers of the channel, and never to the sender
C31_NeverToSender ==
    [][ now' = now =>
          \A i \in DOMAIN emitted' :
              emitted'[i].ev = "peer-joined" =>
                  /\ emitted'[i].to # last'.socket
                  /\ emitted'[i].to \in adapter'[emitted'[i].room] ]_vars

\* ---- C32
\* the step takes room r, which has members, out of the ledger on behalf of op
RemovedBy(op, r) ==
    /\ now' = now
    /\ last'.op = op
    /\ HasRoom(rooms, r)
    /\ ~HasRoom(rooms', r)

\* every connected member of r but the requester is sent chat-ended by the step
MembersToldEnded(r, requester) ==
    \A u \in Members(r) \ {requester} :
        Connected(u) => Sent(emitted', u, "chat-ended") # {}

\* C32: whenever a room that still has connected members is removed from the ledger,
\* by end-chat or by the TTL sweep, every connected member other than the one that
\* asked for the removal is sent chat-ended, so that no connection goes on believing
\* it is in a room while its relay events are dropped
C32_RemovalNotifies ==
    [][ \A r \in RoomKeys :
          /\ RemovedBy("end-chat", r) => MembersToldEnded(r, last'.socket)
          /\ RemovedBy("sweep", r) => MembersToldEnded(r, "timer") ]_vars

\* C32, side check: the end-chat half on its own
C32_EndChatNotifies ==
    [][ \A r \in RoomKeys :
          RemovedBy("end-chat", r) => MembersToldEnded(r, last'.socket) ]_vars

\* ---- C33
\* the values getClientIp returns in the address specification
ClientIps == {GetClientIp(h) : h \in AddrHeaders}

\* the connected sockets the middleware admitted from address a
AdmittedFrom(a) == {c \in SocketIds : Connected(c) /\ sockets[c].ip = a}

\* C33: in every reachable state, for every address value getClientIp can return (a
\* forwarded address, "unknown", or the empty string of an empty x-forwarded-for
\* header), the stored count equals the number of connected sockets admitted from it
C33_CountMatchesConnected ==
    \A a \in ClientIps : CountOf(a) = Cardinality(AdmittedFrom(a))

\* C33, side check: the count is right for every address but the empty string
C33_CountMatchesNonEmpty ==
    \A a \in ClientIps \ {""} : CountOf(a) = Cardinality(AdmittedFrom(a))

\* ---- C34
\* the handler that has just run was an end-chat that ended the room of c: c asked
\* for it, or c was sent chat-ended
JustEnded(c) ==
    /\ last.op = "end-chat"
    /\ last.res = "ended"
    /\ (last.socket = c \/ Sent(emitted, c, "chat-ended") # {})

\* the step makes c a member of a room it was not a member of
BecomesMember(c) ==
    \E r \in RoomKeys : ~ListedIn(rooms, r, c) /\ ListedIn(rooms', r, c)

\* C34: ended is terminal: once the room of a connection has been ended by end-chat,
\* asked for by itself or by its peer, no later event of that connection, a further
\* join-room included, makes it a room member again (stated here for the event that
\* follows the end-chat at once)
C34_EndedIsTerminal ==
    [][ \A c \in SocketIds : JustEnded(c) => ~BecomesMember(c) ]_vars

\* ---- C35
\* numeric timestamps at, inside and outside the two ends of the tolerance window
Timestamps == {[t |-> "number", v |-> now + d] : d \in {-300000, 0, 30000}}

\* the step handles a send-message of member c that is valid but for its timestamp ts
\* and is not rate-limited
StampedMessage(c, ts) ==
    /\ SendMessage(c, [Message(Str(Room1), NameA, now) EXCEPT !.timestamp = ts])
    /\ IsMember(rooms, Room1, c)
    /\ RateCheck(entries, c, now).allowed

\* C35: a send-message that passes every other check is rejected iff its timestamp is
\* more than 30,000 ms after or more than 300,000 ms before the server's time; one
\* exactly 30,000 ms ahead or exactly 300,000 ms behind is accepted and relayed
C35_TimestampTolerance ==
    [][ \A c \in RateSockets, ts \in Timestamps :
          StampedMessage(c, ts) =>
              (last'.res = "dropped" <=> (ts.v > now + 30000 \/ ts.v < now - 300000)) ]_vars

\* C35, side check: what the code does, the two ends of the window being rejected
C35_TimestampStrict ==
    [][ \A c \in RateSockets, ts \in Timestamps :
          StampedMessage(c, ts) =>
              (last'.res = "relayed" <=> (ts.v < now + 30000 /\ ts.v > now - 300000)) ]_vars

\* ---- C36
\* the step handles a typing or a stop-typing of c with a well-formed payload for Room1
TypingEvent(c) ==
    \/ \E p \in TypingPayloads(OneRoom) : Typing(c, p)
    \/ \E p \in RoomPayloads(OneRoom) : StopTyping(c, p)

\* C36: typing and stop-typing never consult or modify the sender's rate-limit
\* window: for a member they are relayed, once to the peer, also while the member's
\* send-message events are being rate-limited, and they leave the window, and so the
\* number of messages the member may still send in it, as it was
C36_TypingNotRateLimited ==
    [][ \A c \in RateSockets :
          (TypingEvent(c) /\ IsMember(rooms, Room1, c)) =>
              /\ entries' = entries
              /\ hist' = hist
              /\ last'.res = "relayed"
              /\ Cardinality(Sent(emitted', "sB", last'.op)) = 1
              /\ Len(emitted') = 1 ]_vars

\* sA, whose window holds 30 timestamps and whose next message would be refused, has
\* had a typing relayed to sB
C36_Witness ==
    /\ last = Handled("typing", "sA", Room1, "relayed")
    /\ "sA" \in DOMAIN entries
    /\ Len(entries["sA"]) = 30
    /\ ~RateCheck(entries, "sA", now).allowed
    /\ hist["sA"].denied > 0
    /\ Sent(emitted, "sB", "typing") # {}

\* ---- C37
\* every timestamp the window es holds for c is less than 10,000 ms older than t
AllInWindow(es, c, t) ==
    c \in DOMAIN es => \A i \in DOMAIN es[c] : t - es[c][i] < 10000 /\ es[c][i] <= t

\* C37: in every reachable state every timestamp retained in the rate-limit window of
\* a connection is less than 10,000 ms older than the current time
C37_WindowAlwaysCurrent == \A c \in SocketIds : AllInWindow(entries, c, now)

\* C37, amended: right after a rate check of a connection every timestamp retained
\* for it is less than 10,000 ms old; between checks nothing prunes the window, and
\* no step but a check or the disconnect of the connection changes it
C37_WindowCurrentAfterCheck ==
    [][ \A c \in SocketIds :
          /\ Checked(c) => AllInWindow(entries', c, now')
          /\ (~Checked(c) /\ c \in DOMAIN entries /\ sockets'[c].state = "connected")
                => (c \in DOMAIN entries' /\ entries'[c] = entries[c]) ]_vars

\* sA was refused with a full window earlier; a later check has pruned the window, kept
\* the timestamps of half a window ago and allowed the message
C37_Witness ==
    /\ last = Handled("send-message", "sA", Room1, "relayed")
    /\ hist["sA"].denied > 0
    /\ "sA" \in DOMAIN entries
    /\ Len(entries["sA"]) \in 2..29
    /\ entries["sA"][1] = now - HalfWindow
    /\ entries["sA"][Len(entries["sA"])] = now

\* ---- C38
\* a string of 1 to 24 characters none of which is a control character
CleanName(n) == Len(n) \in 1..24 /\ \A i \in DOMAIN n : n[i] \notin ControlChars

\* the display name an emitted event carries, if it carries one
CarriesName(e) ==
    \/ e.ev \in {"peer-joined", "peer-left", "typing", "receive-message"}
    \/ e.ev = "joined" /\ e.data.peerName # Null

NameIn(e) ==
    IF e.ev = "joined" THEN e.data.peerName.v
    ELSE IF e.ev = "receive-message" THEN e.data.sender
    ELSE e.data.name

\* C38: every display name stored in the ledger, and every name carried by a
\* joined.peerName, peer-joined, peer-left, typing or receive-message event, is a string
\* of 1 to 24 characters without control characters, whatever name isValidName accepted
C38_NamesClean ==
    /\ \A i \in DOMAIN rooms : \A j \in DOMAIN rooms[i].users :
          CleanName(rooms[i].users[j].name)
    /\ \A k \in DOMAIN emitted : CarriesName(emitted[k]) => CleanName(NameIn(emitted[k]))

\* C38, side check: stored and emitted names never hold a control character and are
\* never longer than 24 characters; only the lower bound fails
C38_NamesStrippedAndCut ==
    /\ \A i \in DOMAIN rooms : \A j \in DOMAIN rooms[i].users :
          LET n == rooms[i].users[j].name
          IN  Len(n) <= 24 /\ \A x \in DOMAIN n : n[x] \notin ControlChars
    /\ \A k \in DOMAIN emitted :
          CarriesName(emitted[k]) =>
              LET n == NameIn(emitted[k])
              IN  Len(n) <= 24 /\ \A x \in DOMAIN n : n[x] \notin ControlChars

\* ---- C39
\* 8 to 16 characters of the alphabet A-Z a-z 0-9 _ -
EightToSixteen(roomId) ==
    /\ roomId.t = "string"
    /\ Len(roomId.v) \in 8..16
    /\ \A i \in DOMAIN roomId.v : roomId.v[i] \in RoomIdChars

FourToSixteen(roomId) ==
    /\ roomId.t = "string"
    /\ Len(roomId.v) \in 4..16
    /\ \A i \in DOMAIN roomId.v : roomId.v[i] \in RoomIdChars

\* the step handles a join-room of c with room id id and answers it Invalid room ID,
\* changing no room
RejectedJoin(c, id) ==
    /\ \E p \in JoinPayloads({id}, OneName) : JoinRoom(c, p)
    /\ OnlyError(c, "Invalid room ID")
    /\ rooms' = rooms

\* the step handles a join-room or a key-exchange of c with room id id
RoomIdEvent(c, id) ==
    \/ \E p \in JoinPayloads({id}, OneName) : JoinRoom(c, p)
    \/ \E p \in KeyPayloads({id}) : KeyExchange(c, p)

\* the handler of the step went past its room id test
PassedRoomId == last'.res \in {"joined", "room-full", "relayed"} \/ last'.roomId # <<>>

\* C39: a handler accepts a room id only if it is 8 to 16 characters long and made of
\* the characters A-Z a-z 0-9 _ -; a join-room with a shorter room id is rejected as
\* an invalid room id and creates no room
C39_RoomIdEightToSixteen ==
    [][ \A c \in IdSockets, id \in RoomIds :
          /\ (RoomIdEvent(c, id) /\ PassedRoomId) => EightToSixteen(id)
          /\ ((\E p \in JoinPayloads({id}, OneName) : JoinRoom(c, p)) /\ Len(id.v) < 8)
                => RejectedJoin(c, id) ]_vars

\* C39, side check: what the code enforces is 4 to 16 characters of that alphabet
C39_RoomIdFourToSixteen ==
    [][ \A c \in IdSockets, id \in RoomIds :
          /\ (RoomIdEvent(c, id) /\ PassedRoomId) => FourToSixteen(id)
          /\ ((\E p \in JoinPayloads({id}, OneName) : JoinRoom(c, p)) /\ ~FourToSixteen(id))
                => RejectedJoin(c, id) ]_vars

====
